---- MODULE Spec2Model ----
(***************************************************************************)
(* Count-Min Sketch of cachelib/common/CountMinSketch.h                    *)
(* (facebook::cachelib::util::detail::CountMinSketchBase<UINT>).           *)
(*                                                                         *)
(* Two sketch objects are modelled so that the move operations have a     *)
(* source and a target.  uint32_t / uint64_t values whose products can    *)
(* overflow are carried as little-endian base-2^8 digit sequences, which   *)
(* keeps their width (32 and 64 bits) exactly.                            *)
(***************************************************************************)
EXTENDS Integers, Sequences, FiniteSets, TLC

\* ------------------------------------------------------------------ bounds
MaxWidth == 3
MaxDepth == 2
MaxKey == 1
\* std::numeric_limits<UINT>::max() of the counter type the model instantiates
CounterMax == 2
\* increment is explored while saturated is below this
MaxSaturated == 3
\* increment is explored while fewer than this many calls are counted
MaxInc == CounterMax + 1

Keys == 0 .. MaxKey
Objs == {1, 2}

\* ------------------------------------------- fixed-width unsigned integers
Byte == 2 ^ 8
U32Len == 4
U64Len == 8
MathLen == U32Len + U64Len

RECURSIVE Digits(_, _)
Digits(n, len) ==
    IF len = 0 THEN << >> ELSE << n % Byte >> \o Digits(n \div Byte, len - 1)

RECURSIVE Value(_)
Value(ds) == IF ds = << >> THEN 0 ELSE Head(ds) + Byte * Value(Tail(ds))

Zeros(len) == [i \in 1 .. len |-> 0]

ZeroExtend(ds, len) == ds \o Zeros(len - Len(ds))

RECURSIVE ScaleCarry(_, _, _)
ScaleCarry(a, m, c) ==
    IF a = << >> THEN << >>
    ELSE LET t == Head(a) * m + c
         IN  << t % Byte >> \o ScaleCarry(Tail(a), m, t \div Byte)

RECURSIVE AddCarry(_, _, _)
AddCarry(a, b, c) ==
    IF a = << >> THEN << >>
    ELSE LET t == Head(a) + Head(b) + c
         IN  << t % Byte >> \o AddCarry(Tail(a), Tail(b), t \div Byte)

\* a * b modulo Byte^Len(a): the product of two unsigned values of a's width
RECURSIVE MulMod(_, _)
MulMod(a, b) ==
    IF b = << >> THEN Zeros(Len(a))
    ELSE AddCarry(ScaleCarry(a, Head(b), 0),
                  << 0 >> \o SubSeq(MulMod(a, Tail(b)), 1, Len(a) - 1),
                  0)

U32(n) == Digits(n, U32Len)
U64(n) == Digits(n, U64Len)
\* the value itself, with room for any product the model forms
Math(ds) == ZeroExtend(ds, MathLen)
MathMul(a, b) == MulMod(Math(a), Math(b))

\* 2^e in len digits
Pow2Digits(e, len) ==
    [i \in 1 .. len |-> IF i = (e \div 8) + 1 THEN 2 ^ (e % 8) ELSE 0]

\* quotient and remainder of ds by n, 0 < n < 2^22, from the top digit down
RECURSIVE DivSmall(_, _, _)
DivSmall(ds, n, rem) ==
    IF ds = << >> THEN [quot |-> << >>, rem |-> rem]
    ELSE LET k == Len(ds)
             t == rem * Byte + ds[k]
             low == DivSmall(SubSeq(ds, 1, k - 1), n, t % n)
         IN  [quot |-> low.quot \o << t \div n >>, rem |-> low.rem]

\* ceil(ds / n)
CeilDivDigits(ds, n) ==
    LET qr == DivSmall(ds, n, 0)
    IN  IF qr.rem = 0 THEN qr.quot
        ELSE AddCarry(qr.quot, Digits(1, Len(ds)), 0)

\* a < b for digit sequences of one length
RECURSIVE Less(_, _)
Less(a, b) ==
    IF a = << >> THEN FALSE
    ELSE LET k == Len(a)
         IN  IF a[k] # b[k] THEN a[k] < b[k]
             ELSE Less(SubSeq(a, 1, k - 1), SubSeq(b, 1, k - 1))

\* ------------------------------------------------------------ rationals
\* a double argument n/d is carried as << n, d >> with d > 0
Rat(n, d) == << n, d >>
\* the double n / (d * 2^e), for the arguments too small for n/d
Scaled(n, d, e) == << n, d, e >>
Exp(q) == IF Len(q) = 3 THEN q[3] ELSE 0
RatLeqZero(q) == q[1] <= 0
RatGeqOne(q) == Exp(q) < 31 /\ q[1] \div (2 ^ Exp(q)) >= q[2]

\* ----------------------------------------------------------------- hashing
hashInt(hashNum) == (hashNum * 40503 + 12345) % 65536

combineHashes(seed, key) == seed * 31 + key * ((seed % 2) + 1)

\* -------------------------------------------------------------- the sketch
getMaxCount == CounterMax

\* a * b in uint32_t arithmetic, as digits
MulU32Digits(a, b) == MulMod(U32(a), U32(b))

\* a * b in uint32_t arithmetic, where the result is below 2^31; operands
\* below 2^15 have a product below 2^32, which the reduction leaves alone
MulU32(a, b) ==
    IF a < 2 ^ 15 /\ b < 2 ^ 15 THEN a * b ELSE Value(MulU32Digits(a, b))

\* uint64_t tableSize = width_ * depth_
tableSize(w, d) == MulU32(w, d)

\* the column of key in row hashNum
rowIndex(w, hashNum, key) == combineHashes(hashInt(hashNum), key) % w

getIndexNoRow(w, hashNum, key) == rowIndex(w, hashNum, key)

getIndex(w, hashNum, key) == MulU32(hashNum, w) + rowIndex(w, hashNum, key)

Min(a, b) == IF a <= b THEN a ELSE b

RECURSIVE getCountLoop(_, _, _, _, _, _)
getCountLoop(w, d, tbl, key, hashNum, count) ==
    IF hashNum < d
    THEN getCountLoop(w, d, tbl, key, hashNum + 1,
                      Min(count, tbl[getIndex(w, hashNum, key)]))
    ELSE count

getCountOfGuardFlipped(w, d, tbl, key) ==
    getCountLoop(w, d, tbl, key, 0, getMaxCount) * (IF d = 0 THEN 1 ELSE 0)

getCountOf(w, d, tbl, key) ==
    getCountLoop(w, d, tbl, key, 0, getMaxCount) * (IF d # 0 THEN 1 ELSE 0)

\* ---------------------------------------------------------------- state
VARIABLES
    origin,      \* per object: "none" (no object), or how the object came to be
    width_,      \* per object: uint32_t width_
    depth_,      \* per object: uint32_t depth_
    saturated,   \* per object: uint64_t saturated
    table_,      \* per object: the cells of table_, indexed from 0; << >> is null
    err,         \* the exception thrown by the last constructor call, or NoError
    lastOp,      \* the last call made: [op, obj, arg]
    nInc,        \* history: per object and key, increment calls since
                 \* construction or the last resetCount of that key
    perturbed,   \* history: per object and key, whether resetCount of another
                 \* key has touched one of the key's cells since then
    hist,        \* history: per object, "inc" (only increment calls so far),
                 \* "rc" (increment and resetCount only) or "any"; "off"
                 \* where no history is kept
    wrapped,     \* history: some counter update left the range of UINT
    wide         \* a construction with dimensions of the full uint32_t range,
                 \* whose table is not held cell by cell: its arguments, the
                 \* number of cells allocated and cleared, and getByteSize()

sketch == << origin, width_, depth_, saturated, table_, err, lastOp,
             nInc, perturbed, hist, wrapped >>

vars == << sketch, wide >>

NoError == [what |-> "none", value |-> 0]
InvalidArgument(what, value) == [what |-> what, value |-> value]

Op(op, o, arg) == [op |-> op, obj |-> o, arg |-> arg]

NullTable == << >>

getCount(o, key) == getCountOf(width_[o], depth_[o], table_[o], key)

Live(o) == origin[o] # "none"

ZeroKeys == [k \in Keys |-> 0]
FalseKeys == [k \in Keys |-> FALSE]

NoWide == [pc |-> "none"]

Init ==
    /\ wide = NoWide
    /\ origin = [o \in Objs |-> "none"]
    /\ width_ = [o \in Objs |-> 0]
    /\ depth_ = [o \in Objs |-> 0]
    /\ saturated = [o \in Objs |-> 0]
    /\ table_ = [o \in Objs |-> NullTable]
    /\ err = NoError
    /\ lastOp = Op("none", 0, 0)
    /\ nInc = [o \in Objs |-> ZeroKeys]
    /\ perturbed = [o \in Objs |-> FalseKeys]
    /\ hist = [o \in Objs |-> "inc"]
    /\ wrapped = FALSE

\* ------------------------------------------------------------ construction
\* what narrow_cast<uint32_t> makes of a double beyond uint32_t: a checked
\* cast throws; the conversion itself is undefined there, and yields the low
\* 32 bits of the integer on some targets and UINT32_MAX on others
Builds == {"throws", "wraps", "saturates"}

FitsU32(ds) == SubSeq(ds, U32Len + 1, Len(ds)) = Zeros(Len(ds) - U32Len)

OverflowError(value) == [what |-> "narrow_cast", value |-> value]

\* narrow_cast<uint32_t> of a non-negative integral double, given as digits
narrow_cast_u32(build, ds) ==
    IF FitsU32(ds) \/ build = "wraps"
    THEN [thrown |-> NoError, value |-> SubSeq(ds, 1, U32Len)]
    ELSE IF build = "saturates"
    THEN [thrown |-> NoError, value |-> [i \in 1 .. U32Len |-> Byte - 1]]
    ELSE [thrown |-> OverflowError(ds), value |-> Zeros(U32Len)]

\* std::ceil(2 / error) for error = n / (d * 2^e) > 0
ceilTwoOver(error) ==
    CeilDivDigits(MulMod(U64(2 * error[2]), Pow2Digits(Exp(error), U64Len)),
                  error[1])

\* least m >= 0 with 2^m * den >= num: ceil(log2(num / den)) for num >= den > 0
RECURSIVE CeilLog2(_, _, _)
CeilLog2(num, den, m) ==
    IF (2 ^ m) * den >= num THEN m ELSE CeilLog2(num, den, m + 1)

errorRejected(error) == RatLeqZero(error) \/ RatGeqOne(error)

\* the width is returned as digits: UINT32_MAX is among its values
calculateWidth(build, error, maxWidth) ==
    IF errorRejected(error)
    THEN [thrown |-> InvalidArgument("Error", error),
          value |-> Zeros(U32Len)]
    ELSE LET width == narrow_cast_u32(build, ceilTwoOver(error))
             cap == U32(maxWidth)
         IN  [thrown |-> width.thrown,
              value |-> IF maxWidth > 0 /\ Less(cap, width.value)
                        THEN cap ELSE width.value]

probabilityRejected(probability) ==
    RatLeqZero(probability) \/ RatGeqOne(probability)

Max(a, b) == IF a >= b THEN a ELSE b

\* a probability is carried as n/d, so the quotient of the logarithms is
\* below 31 and the narrowed value is an integer of the model
calculateDepth(build, probability, maxDepth) ==
    IF probabilityRejected(probability)
    THEN [thrown |-> InvalidArgument("Probability", probability), value |-> 0]
    ELSE LET raw == narrow_cast_u32(build,
                        U64(CeilLog2(probability[2],
                                     probability[2] - probability[1], 0)))
             depth == Max(1, Value(raw.value))
         IN  [thrown |-> raw.thrown,
              value |-> IF maxDepth > 0 THEN Min(maxDepth, depth) ELSE depth]

\* the checks of the (width, depth) constructor, in their order
dimsThrownDepthFirst(width, depth) ==
    IF depth = 0 THEN InvalidArgument("Depth", depth)
    ELSE IF width = 0 THEN InvalidArgument("Width", width)
    ELSE NoError

dimsThrownNoDepthCheck(width, depth) ==
    IF width = 0 THEN InvalidArgument("Width", width) ELSE NoError

dimsThrown(width, depth) ==
    IF width = 0 THEN InvalidArgument("Width", width)
    ELSE IF depth = 0 THEN InvalidArgument("Depth", depth)
    ELSE NoError

\* the number of cells reset() clears
resetSizeOneRow(w, d) == w

resetSize(w, d) == tableSize(w, d)

\* reset(): table_[i] = 0 for i < width_ * depth_
resetTable(w, d, tbl) ==
    [i \in DOMAIN tbl |-> IF i < resetSize(w, d) THEN 0 ELSE tbl[i]]

\* make_unique<UINT[]>(width_ * depth_): value-initialized cells
allocTable(w, d) == [i \in 0 .. (tableSize(w, d) - 1) |-> 0]

Tracked(o) == hist[o] # "off"

FreshHistory(o) ==
    /\ nInc' = [nInc EXCEPT ![o] = ZeroKeys]
    /\ perturbed' = [perturbed EXCEPT ![o] = FalseKeys]
    /\ hist' = [hist EXCEPT ![o] = IF Tracked(o) THEN "inc" ELSE @]

\* the body of CountMinSketchBase(uint32_t width, uint32_t depth); a throw
\* leaves no object
Build(o, width, depth) ==
    LET thrown == dimsThrown(width, depth)
    IN  /\ err' = thrown
        /\ IF thrown # NoError
           THEN UNCHANGED << origin, width_, depth_, saturated, table_,
                             nInc, perturbed, hist >>
           ELSE /\ origin' = [origin EXCEPT ![o] = "dims"]
                /\ width_' = [width_ EXCEPT ![o] = width]
                /\ depth_' = [depth_ EXCEPT ![o] = depth]
                /\ saturated' = [saturated EXCEPT ![o] = 0]
                /\ table_' = [table_ EXCEPT ![o] =
                                 resetTable(width, depth,
                                            allocTable(width, depth))]
                /\ FreshHistory(o)
        /\ UNCHANGED wrapped

CanConstruct(o) == origin[o] = "none" /\ err = NoError

ConstructDims(o, width, depth) ==
    /\ UNCHANGED wide
    /\ CanConstruct(o)
    /\ lastOp' = Op("ConstructDims", o, << width, depth >>)
    /\ Build(o, width, depth)

ConstructAccuracy(o, error, probability, maxWidth, maxDepth) ==
    /\ UNCHANGED wide
    /\ CanConstruct(o)
    /\ lastOp' = Op("ConstructAccuracy", o,
                    << error, probability, maxWidth, maxDepth >>)
    /\ \E build \in Builds :
           LET w == calculateWidth(build, error, maxWidth)
               d == calculateDepth(build, probability, maxDepth)
           IN  IF w.thrown # NoError
               THEN /\ err' = w.thrown
                    /\ UNCHANGED << origin, width_, depth_, saturated, table_,
                                    nInc, perturbed, hist, wrapped >>
               ELSE IF d.thrown # NoError
               THEN /\ err' = d.thrown
                    /\ UNCHANGED << origin, width_, depth_, saturated, table_,
                                    nInc, perturbed, hist, wrapped >>
               ELSE Build(o, Value(w.value), d.value)

\* -------------------------------------------------------------- operations
\* UINT arithmetic: the stored value of a mathematical result
Narrow(raw) == raw % (getMaxCount + 1)

belowMaxAlways(cell) == TRUE

\* the saturation test of increment
belowMax(cell) == cell < getMaxCount

incStepNone(cell) == cell

incStep(cell) == cell + 1

atMaxOrNext(cell) == cell >= getMaxCount - 1

\* table_[index] == getMaxCount(), after the addition
atMax(cell) == cell = getMaxCount

\* the loop of increment; st carries table_, saturated and the wrap history
RECURSIVE incrementLoop(_, _, _, _, _)
incrementLoop(w, d, st, key, hashNum) ==
    IF hashNum < d
    THEN LET index == getIndex(w, hashNum, key)
             cell == st.table[index]
             raw == incStep(cell)
             new == Narrow(raw)
         IN  IF belowMax(cell)
             THEN incrementLoop(w, d,
                      [table |-> [st.table EXCEPT ![index] = new],
                       saturated |-> IF atMax(new)
                                     THEN st.saturated + 1
                                     ELSE st.saturated,
                       wrapped |-> st.wrapped \/ raw # new],
                      key, hashNum + 1)
             ELSE incrementLoop(w, d, st, key, hashNum + 1)
    ELSE st

\* the counted increment calls of all keys up to k
RECURSIVE SumInc(_, _)
SumInc(f, k) == IF k < 0 THEN 0 ELSE f[k] + SumInc(f, k - 1)

Increment(o, key) ==
    /\ UNCHANGED wide
    /\ Live(o)
    /\ SumInc(nInc[o], MaxKey) < MaxInc
    /\ saturated[o] < MaxSaturated
    /\ LET st == incrementLoop(width_[o], depth_[o],
                     [table |-> table_[o], saturated |-> saturated[o],
                      wrapped |-> wrapped],
                     key, 0)
       IN  /\ table_' = [table_ EXCEPT ![o] = st.table]
           /\ saturated' = [saturated EXCEPT ![o] = st.saturated]
           /\ wrapped' = st.wrapped
    /\ nInc' = [nInc EXCEPT ![o][key] = IF Tracked(o) THEN @ + 1 ELSE @]
    /\ lastOp' = Op("increment", o, 0)
    /\ UNCHANGED << origin, width_, depth_, err, perturbed, hist >>

resetStepTwice(cell, count) == cell - 2 * count

resetStepNone(cell, count) == cell

\* table_[index] -= count
resetStep(cell, count) == cell - count

\* the loop of resetCount
RECURSIVE resetCountLoop(_, _, _, _, _, _)
resetCountLoop(w, d, st, key, count, hashNum) ==
    IF hashNum < d
    THEN LET index == getIndex(w, hashNum, key)
             raw == resetStep(st.table[index], count)
             new == Narrow(raw)
         IN  resetCountLoop(w, d,
                 [table |-> [st.table EXCEPT ![index] = new],
                  wrapped |-> st.wrapped \/ raw # new],
                 key, count, hashNum + 1)
    ELSE st

\* the keys' cells
Cells(w, d, key) == {getIndex(w, hashNum, key) : hashNum \in 0 .. (d - 1)}

SharesCell(w, d, k1, k2) == Cells(w, d, k1) \cap Cells(w, d, k2) # {}

ResetCount(o, key) ==
    /\ UNCHANGED wide
    /\ Live(o)
    /\ LET count == getCount(o, key)
           st == resetCountLoop(width_[o], depth_[o],
                     [table |-> table_[o], wrapped |-> wrapped],
                     key, count, 0)
       IN  /\ table_' = [table_ EXCEPT ![o] = st.table]
           /\ wrapped' = st.wrapped
    /\ nInc' = [nInc EXCEPT ![o][key] = 0]
    /\ perturbed' = [perturbed EXCEPT ![o] =
           [k \in Keys |->
               IF k = key \/ ~Tracked(o) THEN FALSE
               ELSE @[k] \/ SharesCell(width_[o], depth_[o], k, key)]]
    /\ hist' = [hist EXCEPT ![o] = IF @ = "inc" THEN "rc" ELSE @]
    /\ lastOp' = Op("resetCount", o, 0)
    /\ UNCHANGED << origin, width_, depth_, saturated, err >>

decayCellRoundUp(cell, decay) ==
    (cell * decay[1] + decay[2] - 1) \div decay[2]

\* narrow_cast<UINT>(cell * decay) before narrowing: the product truncated
decayCell(cell, decay) == (cell * decay[1]) \div decay[2]

DecayCountsBy(o, decay) ==
    /\ UNCHANGED wide
    /\ Live(o)
    /\ LET size == tableSize(width_[o], depth_[o])
           raw == [i \in DOMAIN table_[o] |->
                      IF i < size THEN decayCell(table_[o][i], decay)
                      ELSE table_[o][i]]
       IN  /\ table_' = [table_ EXCEPT ![o] =
                            [i \in DOMAIN raw |-> Narrow(raw[i])]]
           /\ wrapped' = (wrapped \/ \E i \in DOMAIN raw : raw[i] # Narrow(raw[i]))
    /\ hist' = [hist EXCEPT ![o] = IF Tracked(o) THEN "any" ELSE @]
    /\ lastOp' = Op("decayCountsBy", o, 0)
    /\ UNCHANGED << origin, width_, depth_, saturated, err, nInc, perturbed >>

ResetWithSaturated(o) ==
    /\ UNCHANGED wide
    /\ Live(o)
    /\ table_' = [table_ EXCEPT ![o] = resetTable(width_[o], depth_[o], @)]
    /\ saturated' = [saturated EXCEPT ![o] = 0]
    /\ hist' = [hist EXCEPT ![o] = IF Tracked(o) THEN "any" ELSE @]
    /\ lastOp' = Op("reset", o, 0)
    /\ UNCHANGED << origin, width_, depth_, err, nInc, perturbed, wrapped >>

\* reset(): the cells are cleared, saturated is not
Reset(o) ==
    /\ UNCHANGED wide
    /\ Live(o)
    /\ table_' = [table_ EXCEPT ![o] = resetTable(width_[o], depth_[o], @)]
    /\ hist' = [hist EXCEPT ![o] = IF Tracked(o) THEN "any" ELSE @]
    /\ lastOp' = Op("reset", o, 0)
    /\ UNCHANGED << origin, width_, depth_, saturated, err, nInc, perturbed,
                    wrapped >>

\* CountMinSketchBase() = default: the default member initializers
ConstructDefault(o) ==
    /\ UNCHANGED wide
    /\ CanConstruct(o)
    /\ origin' = [origin EXCEPT ![o] = "default"]
    /\ width_' = [width_ EXCEPT ![o] = 0]
    /\ depth_' = [depth_ EXCEPT ![o] = 0]
    /\ saturated' = [saturated EXCEPT ![o] = 0]
    /\ table_' = [table_ EXCEPT ![o] = NullTable]
    /\ FreshHistory(o)
    /\ lastOp' = Op("ConstructDefault", o, 0)
    /\ UNCHANGED << err, wrapped >>

\* the move constructor's effect on target o and source other: saturated is
\* not in its initializer list, so o gets the default 0 and other keeps its
\* own; no history is kept across a move
MoveInto(o, other) ==
    /\ origin' = [origin EXCEPT ![o] = "movedTo", ![other] = "movedFrom"]
    /\ width_' = [width_ EXCEPT ![o] = width_[other], ![other] = 0]
    /\ depth_' = [depth_ EXCEPT ![o] = depth_[other], ![other] = 0]
    /\ saturated' = [saturated EXCEPT ![o] = 0]
    /\ table_' = [table_ EXCEPT ![o] = table_[other], ![other] = NullTable]
    /\ nInc' = [nInc EXCEPT ![o] = ZeroKeys, ![other] = ZeroKeys]
    /\ perturbed' = [perturbed EXCEPT ![o] = FalseKeys, ![other] = FalseKeys]
    /\ hist' = [hist EXCEPT ![o] = "off", ![other] = "off"]
    /\ UNCHANGED << err, wrapped >>

ConstructMove(o, other) ==
    /\ UNCHANGED wide
    /\ origin[o] = "none"
    /\ Live(other)
    /\ lastOp' = Op("ConstructMove", o, other)
    /\ MoveInto(o, other)

\* operator=(CountMinSketchBase&&): destroy and move-construct in place,
\* unless this == &other
MoveAssign(o, other) ==
    /\ UNCHANGED wide
    /\ Live(o)
    /\ Live(other)
    /\ lastOp' = Op("MoveAssign", o, other)
    /\ IF o # other
       THEN MoveInto(o, other)
       ELSE UNCHANGED << origin, width_, depth_, saturated, table_, err,
                         nInc, perturbed, hist, wrapped >>

\* ------------------------------------------------------------ specification
Errors == {Rat(0 - 1, 2), Rat(0, 1), Rat(2, 3), Rat(1, 1), Rat(3, 2)}
Probabilities ==
    {Rat(0 - 1, 2), Rat(0, 1), Rat(1, 2), Rat(2, 3), Rat(1, 1), Rat(3, 2)}
DecayFactors == {Rat(0, 1), Rat(1, 2), Rat(1, 1)}

\* one sketch built by a throwing constructor, and its operations
Next ==
    \/ \E w \in 0 .. MaxWidth, d \in 0 .. MaxDepth : ConstructDims(1, w, d)
    \/ \E e \in Errors, p \in Probabilities,
          mw \in 0 .. MaxWidth, md \in 0 .. MaxDepth :
           ConstructAccuracy(1, e, p, mw, md)
    \/ \E k \in Keys : Increment(1, k)
    \/ \E k \in Keys : ResetCount(1, k)
    \/ \E f \in DecayFactors : DecayCountsBy(1, f)
    \/ Reset(1)

Spec == Init /\ [][Next]_vars

\* two objects, with default construction and moves; object 1 is built by the
\* (width, depth) or the default constructor, object 2 by the default or the
\* move constructor
MoveWidths == {0, 1, MaxWidth - 1}

NextMove ==
    \/ \E w \in MoveWidths, d \in 0 .. MaxDepth : ConstructDims(1, w, d)
    \/ \E o \in Objs : ConstructDefault(o)
    \/ \E o \in Objs, other \in Objs : ConstructMove(o, other)
    \/ \E o \in Objs, other \in Objs : MoveAssign(o, other)
    \/ \E o \in Objs, k \in Keys : Increment(o, k)
    \/ \E o \in Objs, k \in Keys : ResetCount(o, k)
    \/ \E o \in Objs, f \in DecayFactors : DecayCountsBy(o, f)
    \/ \E o \in Objs : Reset(o)

InitMove ==
    /\ wide = NoWide
    /\ origin = [o \in Objs |-> "none"]
    /\ width_ = [o \in Objs |-> 0]
    /\ depth_ = [o \in Objs |-> 0]
    /\ saturated = [o \in Objs |-> 0]
    /\ table_ = [o \in Objs |-> NullTable]
    /\ err = NoError
    /\ lastOp = Op("none", 0, 0)
    /\ nInc = [o \in Objs |-> ZeroKeys]
    /\ perturbed = [o \in Objs |-> FalseKeys]
    /\ hist = [o \in Objs |-> "off"]
    /\ wrapped = FALSE

SpecMove == InitMove /\ [][NextMove]_vars

\* ------------------------------------------- dimensions of the full range
\* sizeof(UINT) of CountMinSketch8, CountMinSketch16 and CountMinSketch
SizeofUINT == {1, 2, 4}

\* uint32_t arguments, among them ones whose product passes 2^32
WideValues ==
    {0, 1, 2, 3, 255, 2 ^ 15, 2 ^ 16 - 1, 2 ^ 16, 2 ^ 16 + 1, 2 ^ 30,
     2 ^ 30 + 1}

\* width_ * depth_ * sizeof(UINT): the uint32_t product, widened to the
\* 64 bits of size_t for the second multiplication
getByteSize(w, d, size) ==
    MulMod(ZeroExtend(MulU32Digits(w, d), U64Len), U64(size))

\* CountMinSketchBase(uint32_t width, uint32_t depth): the checks, and the
\* number of cells make_unique allocates and reset() clears
WideConstruct(w, d, size) ==
    /\ wide.pc = "start"
    /\ LET thrown == dimsThrown(w, d)
       IN  wide' = IF thrown # NoError
                   THEN [pc |-> "thrown", width |-> w, depth |-> d,
                         size |-> size, thrown |-> thrown]
                   ELSE [pc |-> "built", width |-> w, depth |-> d,
                         size |-> size, cells |-> MulU32Digits(w, d)]
    /\ UNCHANGED sketch

WideGetByteSize ==
    /\ wide.pc = "built"
    /\ wide' = [pc |-> "sized", width |-> wide.width, depth |-> wide.depth,
                size |-> wide.size, cells |-> wide.cells,
                bytes |-> getByteSize(wide.width, wide.depth, wide.size)]
    /\ UNCHANGED sketch

\* getIndex in the full range: the uint32_t product hashNum * width_, widened
\* to the 64 bits of rowIndex for the addition
getIndexU64(w, hashNum, key) ==
    AddCarry(ZeroExtend(MulU32Digits(hashNum, w), U64Len),
             U64(rowIndex(w, hashNum, key)), 0)

\* the first rows of a sketch
WideRows == 0 .. 4

\* the index that increment, getCount and resetCount compute for key in row
\* hashNum < depth_
WideGetIndex(hashNum, key) ==
    /\ wide.pc = "built"
    /\ hashNum < wide.depth
    /\ wide' = [pc |-> "indexed", width |-> wide.width, depth |-> wide.depth,
                size |-> wide.size, cells |-> wide.cells,
                hashNum |-> hashNum, key |-> key,
                index |-> getIndexU64(wide.width, hashNum, key)]
    /\ UNCHANGED sketch

\* double error arguments: rejected ones, ordinary ones, and ones for which
\* 2 / error is 2^16, 2^31, 2^33 and 2^35 / 3
WideErrors ==
    {Rat(0, 1), Rat(1, 100), Rat(1, 2), Rat(2, 3), Rat(3, 2),
     Scaled(1, 2, 14), Scaled(1, 2, 29), Scaled(1, 2, 31), Scaled(3, 4, 32)}

WideProbabilities ==
    {Rat(0, 1), Rat(1, 2), Rat(2, 3), Rat(99, 100), Rat(2 ^ 29 - 1, 2 ^ 29),
     Rat(1, 1)}

\* uint32_t maxWidth and maxDepth arguments
WideMaxWidths == {0, 1, 255, 2 ^ 30}
WideMaxDepths == {0, 1, 3}

\* CountMinSketchBase(double error, double probability, uint32_t maxWidth,
\* uint32_t maxDepth): the two calculations, left to right, then the
\* (width, depth) constructor, which looks at the width only to compare it
\* with 0
WideAccuracy(build, error, probability, maxWidth, maxDepth) ==
    /\ wide.pc = "start"
    /\ LET w == calculateWidth(build, error, maxWidth)
           d == calculateDepth(build, probability, maxDepth)
           thrown == IF w.thrown # NoError THEN w.thrown
                     ELSE IF d.thrown # NoError THEN d.thrown
                     ELSE dimsThrown(IF w.value = Zeros(U32Len) THEN 0 ELSE 1,
                                     d.value)
       IN  wide' = [pc |-> "accuracy", build |-> build, error |-> error,
                    probability |-> probability, maxWidth |-> maxWidth,
                    maxDepth |-> maxDepth, thrown |-> thrown,
                    width |-> w.value, depth |-> d.value,
                    cells |-> MulMod(w.value, U32(d.value))]
    /\ UNCHANGED sketch

InitDims ==
    /\ wide = [pc |-> "start"]
    /\ origin = [o \in Objs |-> "none"]
    /\ width_ = [o \in Objs |-> 0]
    /\ depth_ = [o \in Objs |-> 0]
    /\ saturated = [o \in Objs |-> 0]
    /\ table_ = [o \in Objs |-> NullTable]
    /\ err = NoError
    /\ lastOp = Op("none", 0, 0)
    /\ nInc = [o \in Objs |-> ZeroKeys]
    /\ perturbed = [o \in Objs |-> FalseKeys]
    /\ hist = [o \in Objs |-> "off"]
    /\ wrapped = FALSE

NextDims ==
    \/ \E w \in WideValues, d \in WideValues, size \in SizeofUINT :
           WideConstruct(w, d, size)
    \/ WideGetByteSize
    \/ \E hashNum \in WideRows, key \in Keys : WideGetIndex(hashNum, key)
    \/ \E build \in Builds, error \in WideErrors,
          probability \in WideProbabilities,
          maxWidth \in WideMaxWidths, maxDepth \in WideMaxDepths :
           WideAccuracy(build, error, probability, maxWidth, maxDepth)

SpecDims == InitDims /\ [][NextDims]_vars

\* ------------------------------------------------------------------ claims
SaturatedCells(o) ==
    {i \in DOMAIN table_[o] : table_[o][i] = getMaxCount}

AllZero(o) ==
    /\ \A i \in DOMAIN table_[o] : table_[o][i] = 0
    /\ \A k \in Keys : getCount(o, k) = 0

\* C1: after only increment calls on a freshly constructed sketch, getCount(k)
\* is at least the number of increment(k) calls while no cell of k is at
\* getMaxCount(), and at least min(that number, getMaxCount()) always.
C1_NeverUndercount ==
    \A o \in Objs :
        (Live(o) /\ hist[o] = "inc") =>
            \A k \in Keys :
                /\ getCount(o, k) >= Min(nInc[o][k], getMaxCount)
                /\ (\A i \in Cells(width_[o], depth_[o], k) :
                        table_[o][i] < getMaxCount)
                    => getCount(o, k) >= nInc[o][k]

C1_Witness ==
    /\ origin[1] = "dims"
    /\ hist[1] = "inc"
    /\ \E k \in Keys :
           /\ nInc[1][k] > getMaxCount
           /\ getCount(1, k) = getMaxCount
    /\ \E k \in Keys : nInc[1][k] = 0 /\ getCount(1, k) = 0

\* C2 as stated: after increment and resetCount calls only, with no cell
\* saturated, getCount(k) is at least the number of increment(k) calls since
\* the last resetCount(k), also when resetCount was called on a colliding key.
C2_Original ==
    \A o \in Objs :
        (Live(o) /\ hist[o] \in {"inc", "rc"} /\ saturated[o] = 0) =>
            \A k \in Keys : getCount(o, k) >= nInc[o][k]

\* C2 as amended: the same, for every key k none of whose cells has been
\* touched by resetCount of another key since the last resetCount(k).
C2_NeverUndercountUnperturbed ==
    \A o \in Objs :
        (Live(o) /\ hist[o] \in {"inc", "rc"} /\ saturated[o] = 0) =>
            \A k \in Keys : ~perturbed[o][k] => getCount(o, k) >= nInc[o][k]

C2_Witness ==
    /\ hist[1] = "rc"
    /\ lastOp.op = "resetCount"
    /\ saturated[1] = 0
    /\ \E k \in Keys :
           /\ ~perturbed[1][k]
           /\ nInc[1][k] >= 1
           /\ getCount(1, k) = nInc[1][k]

\* C3: every cell is in [0, getMaxCount()] and no update ever wraps: increment
\* leaves a cell at getMaxCount() there, resetCount never subtracts more than
\* a cell holds, and decayCountsBy(d) with 0 <= d <= 1 stays in range.
C3_CellRange ==
    /\ ~wrapped
    /\ \A o \in Objs : \A i \in DOMAIN table_[o] :
           table_[o][i] \in 0 .. getMaxCount

C3_Witness ==
    /\ lastOp.op = "increment"
    /\ hist[1] = "rc"
    /\ ~wrapped
    /\ \E k \in Keys :
           /\ nInc[1][k] > getMaxCount
           /\ \A i \in Cells(width_[1], depth_[1], k) :
                  table_[1][i] = getMaxCount

\* C4 as stated: getSaturatedCounts() equals the number of cells whose value
\* is getMaxCount().
C4_SaturatedExact ==
    \A o \in Objs : Live(o) => saturated[o] = Cardinality(SaturatedCells(o))

\* C5: immediately after reset(), and after a successful construction, every
\* cell is 0 and getCount(k) = 0 for every key k.
C5_ZeroAfterReset ==
    (lastOp.op \in {"reset", "ConstructDims", "ConstructAccuracy"}
        /\ Live(lastOp.obj))
    => AllZero(lastOp.obj)

C5_Witness ==
    /\ lastOp.op = "reset"
    /\ depth_[1] > 1
    /\ saturated[1] > 0
    /\ AllZero(1)

\* C6: an increment(k) call never lowers getCount(k), also when a cell of k
\* is at getMaxCount().
C6_Monotonic ==
    [][\A o \in Objs : \A k \in Keys :
           (lastOp'.op = "increment" /\ lastOp'.obj = o
               /\ nInc'[o][k] = nInc[o][k] + 1)
           => getCount(o, k)' >= getCount(o, k)]_vars

C6_Witness ==
    /\ lastOp.op = "increment"
    /\ hist[1] = "inc"
    /\ \E k \in Keys :
           /\ nInc[1][k] = getMaxCount + 1
           /\ getCount(1, k) = getMaxCount
           /\ saturated[1] = depth_[1]
    /\ depth_[1] > 1

\* the increment calls counted for the keys up to k that map to column c of
\* row r
RECURSIVE IncsInto(_, _, _, _)
IncsInto(o, r, c, k) ==
    IF k < 0 THEN 0
    ELSE (IF rowIndex(width_[o], r, k) = c THEN nInc[o][k] ELSE 0)
         + IncsInto(o, r, c, k - 1)

CollideEverywhere(o, k1, k2) ==
    \A r \in 0 .. (depth_[o] - 1) :
        rowIndex(width_[o], r, k1) = rowIndex(width_[o], r, k2)

\* C7: after only increment calls on a fresh sketch, the cell of row r and
\* column c holds min(getMaxCount(), number of increment calls whose key maps
\* to column c in row r); two keys that share their column in every row each
\* read at least their combined increments (capped), and exactly that when
\* no third key was counted into their cells.
C7_ExactCells ==
    \A o \in Objs :
        (Live(o) /\ hist[o] = "inc") =>
            /\ DOMAIN table_[o] = 0 .. (width_[o] * depth_[o] - 1)
            /\ \A r \in 0 .. (depth_[o] - 1), c \in 0 .. (width_[o] - 1) :
                   table_[o][r * width_[o] + c]
                       = Min(getMaxCount, IncsInto(o, r, c, MaxKey))
            /\ \A k1 \in Keys : \A k2 \in Keys \ {k1} :
                   CollideEverywhere(o, k1, k2) =>
                       LET both == Min(getMaxCount, nInc[o][k1] + nInc[o][k2])
                           third == {k3 \in Keys \ {k1, k2} :
                                        /\ nInc[o][k3] > 0
                                        /\ SharesCell(width_[o], depth_[o],
                                                      k1, k3)}
                       IN  /\ getCount(o, k1) >= both
                           /\ third = {} => getCount(o, k1) = both

C7_Witness ==
    /\ origin[1] = "dims"
    /\ hist[1] = "inc"
    /\ width_[1] = 2
    /\ \E k1 \in Keys : \E k2 \in Keys \ {k1} :
           /\ CollideEverywhere(1, k1, k2)
           /\ nInc[1][k1] = 1
           /\ nInc[1][k2] = 1
           /\ getCount(1, k1) = 2

\* a double argument outside the open interval (0, 1)
OutsideUnit(q) == ~(0 < q[1] /\ q[1] < q[2])

C10_ByteSizeExact ==
    wide.pc = "sized" =>
        /\ Math(wide.cells) = MathMul(U32(wide.width), U32(wide.depth))
        /\ Math(wide.bytes)
               = MathMul(MathMul(U32(wide.width), U32(wide.depth)),
                         U64(wide.size))

\* ceil(2 / error), capped to maxWidth when maxWidth > 0
ClaimedWidth(error, maxWidth) ==
    LET width == ceilTwoOver(error)
        cap == U64(maxWidth)
    IN  IF maxWidth > 0 /\ Less(cap, width) THEN cap ELSE width

\* max(1, ceil(|log2(1 - probability)|)), capped to maxDepth when
\* maxDepth > 0
ClaimedDepth(probability, maxDepth) ==
    LET depth == Max(1, CeilLog2(probability[2],
                                 probability[2] - probability[1], 0))
    IN  IF maxDepth > 0 THEN Min(maxDepth, depth) ELSE depth

\* C11 as stated: for every error and probability in (0, 1) and every
\* maxWidth and maxDepth, construction by accuracy yields width =
\* ceil(2 / error) capped to maxWidth when maxWidth > 0 and depth =
\* max(1, ceil(|log2(1 - probability)|)) capped to maxDepth when maxDepth > 0,
\* so width >= 1 and depth >= 1; (0.01, 0.99, 0, 0) yields width 200 and
\* depth 7.
C11_DimensionCalculation ==
    (wide.pc = "accuracy" /\ ~OutsideUnit(wide.error)
        /\ ~OutsideUnit(wide.probability))
    => /\ wide.thrown.what = "none"
       /\ ZeroExtend(wide.width, U64Len)
              = ClaimedWidth(wide.error, wide.maxWidth)
       /\ wide.depth = ClaimedDepth(wide.probability, wide.maxDepth)
       /\ wide.width # Zeros(U32Len)
       /\ wide.depth >= 1
       /\ (wide.error = Rat(1, 100) /\ wide.probability = Rat(99, 100)
              /\ wide.maxWidth = 0 /\ wide.maxDepth = 0)
          => (wide.width = U32(200) /\ wide.depth = 7)

\* C12: for every decay factor d with 0 <= d <= 1, a decayCountsBy(d) call
\* leaves floor(old * d) in every one of the width * depth cells, so no cell
\* increases, every cell stays in [0, getMaxCount()], and getCount(k) does
\* not increase for any key k.
C12_DecayScaling ==
    [][\A o \in Objs : \A f \in DecayFactors :
           (lastOp'.op = "decayCountsBy" /\ DecayCountsBy(o, f)) =>
               /\ DOMAIN table_[o] = 0 .. (width_[o] * depth_[o] - 1)
               /\ DOMAIN table_'[o] = DOMAIN table_[o]
               /\ \A i \in DOMAIN table_[o] :
                      /\ table_'[o][i] * f[2] <= table_[o][i] * f[1]
                      /\ (table_'[o][i] + 1) * f[2] > table_[o][i] * f[1]
                      /\ table_'[o][i] <= table_[o][i]
                      /\ table_'[o][i] \in 0 .. getMaxCount
               /\ \A k \in Keys : getCount(o, k)' <= getCount(o, k)]_vars

C12_Witness ==
    /\ lastOp.op = "decayCountsBy"
    /\ depth_[1] > 1
    /\ \E k \in Keys :
           /\ nInc[1][k] = getMaxCount
           /\ getCount(1, k) = getMaxCount \div 2
    /\ \E i \in DOMAIN table_[1] : table_[1][i] = 0

\* C13: resetCount(k) computes c = getCount(k) in the state before the call
\* and subtracts c exactly once from each of the depth cells of k, one per
\* row and pairwise distinct; every other cell, width, depth and
\* saturatedCount are left unchanged.
C13_ResetCountStep ==
    [][\A o \in Objs : \A k \in Keys :
           (lastOp'.op = "resetCount" /\ ResetCount(o, k)) =>
               LET c == getCount(o, k)
                   w == width_[o]
                   cells == Cells(w, depth_[o], k)
               IN  /\ Cardinality(cells) = depth_[o]
                   /\ \A r \in 0 .. (depth_[o] - 1) :
                          getIndex(w, r, k) \in (r * w) .. ((r + 1) * w - 1)
                   /\ DOMAIN table_'[o] = DOMAIN table_[o]
                   /\ \A i \in DOMAIN table_[o] :
                          table_'[o][i] = IF i \in cells
                                          THEN table_[o][i] - c
                                          ELSE table_[o][i]
                   /\ \A other \in Objs \ {o} :
                          table_'[other] = table_[other]
                   /\ width_' = width_
                   /\ depth_' = depth_
                   /\ saturated' = saturated]_vars

C13_Witness ==
    /\ lastOp.op = "resetCount"
    /\ depth_[1] = 2
    /\ saturated[1] = 2
    /\ SaturatedCells(1) = {}
    /\ \E k \in Keys :
           /\ nInc[1][k] = 0
           /\ \A i \in Cells(width_[1], depth_[1], k) : table_[1][i] = 0
    /\ \E i \in DOMAIN table_[1] : table_[1][i] = 1

\* C14: in every reachable state of a constructed sketch and for every key
\* k, getCount(k) = 0 immediately after resetCount(k), whether or not other
\* keys collide with k in some or all rows.
C14_ZeroAfterResetCount ==
    [][\A o \in Objs : \A k \in Keys :
           (lastOp'.op = "resetCount" /\ ResetCount(o, k))
               => getCount(o, k)' = 0]_vars

C14_Witness ==
    /\ lastOp.op = "resetCount"
    /\ depth_[1] = 2
    /\ \E k \in Keys : \E k2 \in Keys \ {k} :
           /\ nInc[1][k] = 0
           /\ getCount(1, k) = 0
           /\ \E i \in Cells(width_[1], depth_[1], k) : table_[1][i] > 0
           /\ SharesCell(width_[1], depth_[1], k, k2)
           /\ ~CollideEverywhere(1, k, k2)
           /\ nInc[1][k2] > 0

\* C15: a single increment(k) raises saturatedCount by exactly the number of
\* k's cells that go from getMaxCount() - 1 to getMaxCount() in that call;
\* cells already at getMaxCount() are skipped and do not raise it again; so
\* along an increment-only sequence from a fresh sketch saturatedCount is
\* the number of cells at getMaxCount().
C15_IncrementSaturation ==
    /\ [][\A o \in Objs : \A k \in Keys :
              (lastOp'.op = "increment" /\ Increment(o, k)) =>
                  LET cells == Cells(width_[o], depth_[o], k)
                      reached == {i \in cells :
                                     /\ table_[o][i] = getMaxCount - 1
                                     /\ table_'[o][i] = getMaxCount}
                  IN  /\ saturated'[o] = saturated[o] + Cardinality(reached)
                      /\ \A i \in cells :
                             table_[o][i] = getMaxCount
                                 => table_'[o][i] = getMaxCount
                      /\ \A other \in Objs \ {o} :
                             saturated'[other] = saturated[other]]_vars
    /\ [](\A o \in Objs :
              (Live(o) /\ hist[o] = "inc")
                  => saturated[o] = Cardinality(SaturatedCells(o)))

C15_Witness ==
    /\ lastOp.op = "increment"
    /\ hist[1] = "inc"
    /\ depth_[1] = 2
    /\ saturated[1] = 1
    /\ Cardinality(SaturatedCells(1)) = 1
    /\ \A k \in Keys : nInc[1][k] \in 1 .. (getMaxCount - 1)

\* C16: resetCount, decayCountsBy and reset each leave saturatedCount
\* unchanged, also when they bring saturated cells below getMaxCount() or
\* to 0, so across any sequence of increment, resetCount, decayCountsBy and
\* reset the value of getSaturatedCounts() never decreases.
C16_SaturatedNeverLowered ==
    [][\A o \in Objs :
           Live(o) =>
               /\ lastOp'.op \in {"resetCount", "decayCountsBy", "reset"}
                      => saturated'[o] = saturated[o]
               /\ lastOp'.op = "increment" => saturated'[o] >= saturated[o]
               /\ lastOp'.op \in {"increment", "resetCount",
                                  "decayCountsBy", "reset"}]_vars

C16_Witness ==
    /\ lastOp.op = "decayCountsBy"
    /\ saturated[1] = 2
    /\ SaturatedCells(1) = {}
    /\ \E i \in DOMAIN table_[1] : table_[1][i] = 1

\* C17 as stated: for every constructed sketch, every row r < depth and every
\* key, the index used by increment, getCount and resetCount is
\* r * width + column with column in [0, width), so it lies in
\* [r * width, (r + 1) * width), inside the allocated table of width * depth
\* cells, and cells of different rows never alias, with hashNum * width_ and
\* width_ * depth_ computed in 32 bits.
C17_IndexBounds ==
    wide.pc = "indexed" =>
        LET column == rowIndex(wide.width, wide.hashNum, wide.key)
            rowStart == MathMul(U32(wide.hashNum), U32(wide.width))
            rowEnd == MathMul(U32(wide.hashNum + 1), U32(wide.width))
        IN  /\ column \in 0 .. (wide.width - 1)
            /\ Math(wide.index) = AddCarry(rowStart, Math(U32(column)), 0)
            /\ ~Less(Math(wide.index), rowStart)
            /\ Less(Math(wide.index), rowEnd)
            /\ Less(Math(wide.index), Math(wide.cells))
            /\ Math(wide.cells)
                   = MathMul(U32(wide.width), U32(wide.depth))

\* C18 as stated: after move-constructing or move-assigning a sketch D from
\* another sketch S, D's width(), depth(), getCount(k) for every key k and
\* getSaturatedCounts() equal S's values just before the move, and S is left
\* empty: width() = depth() = 0, getCount(k) = 0 for every k,
\* getSaturatedCounts() = 0, and no table cell is shared between S and D.
C18_MovePreservesState ==
    [][\A D \in Objs : \A S \in Objs \ {D} :
           (lastOp'.op \in {"ConstructMove", "MoveAssign"}
               /\ (ConstructMove(D, S) \/ MoveAssign(D, S))) =>
               /\ width_'[D] = width_[S]
               /\ depth_'[D] = depth_[S]
               /\ \A k \in Keys : getCount(D, k)' = getCount(S, k)
               /\ saturated'[D] = saturated[S]
               /\ width_'[S] = 0
               /\ depth_'[S] = 0
               /\ \A k \in Keys : getCount(S, k)' = 0
               /\ saturated'[S] = 0
               /\ table_'[S] = NullTable]_vars

\* C19: on a sketch with depth = 0 (default-constructed or moved-from, whose
\* table is null) getCount(k) returns 0 for every key k, not getMaxCount(),
\* and increment, resetCount, reset and decayCountsBy touch no table cell and
\* change no state.
C19_EmptySketchGuard ==
    /\ [](\A o \in Objs :
              (Live(o) /\ depth_[o] = 0) =>
                  /\ origin[o] \in {"default", "movedFrom", "movedTo"}
                  /\ table_[o] = NullTable
                  /\ \A k \in Keys : getCount(o, k) = 0)
    /\ [][\A o \in Objs :
              (Live(o) /\ depth_[o] = 0 /\ lastOp'.obj = o
                  /\ lastOp'.op \in {"increment", "resetCount", "reset",
                                     "decayCountsBy"})
              => UNCHANGED << origin, width_, depth_, saturated, table_, err,
                              wrapped >>]_vars

C19_Witness ==
    /\ lastOp = Op("increment", 1, 0)
    /\ origin[1] = "movedFrom"
    /\ depth_[1] = 0
    /\ table_[1] = NullTable
    /\ saturated[1] > 0
    /\ \A k \in Keys : getCount(1, k) = 0
    /\ \E k \in Keys : getCount(2, k) > 0

====
